---------------------------- MODULE Spec2Model ----------------------------
(***************************************************************************)
(* Model of the two strategy pipelines of the repository:                  *)
(*   ejercicio1: OrderProcessor (order notifications over channels)        *)
(*   ejercicio2: ReportSystem  (report kind -> format -> delivery)         *)
(* Texts are sequences of tokens, Python lists are heap objects reached    *)
(* through references, and every handler is one atomic action (the code    *)
(* is single threaded and synchronous) that also records the ordered       *)
(* steps it performed in the variable events.                              *)
(***************************************************************************)
EXTENDS Integers, Sequences, FiniteSets, TLC

VARIABLES
    strategies,   \* the four class-level _strategies tables
    heap,         \* list objects: reference -> sequence of records
    saved,        \* per list object, the number of HistoryManager.save calls
    now,          \* the wall clock read by datetime.now()
    op,           \* the call whose outcome the caller is looking at, or Idle
    args,         \* its arguments
    raised,       \* the exception it raised to its caller, or NoError
    events,       \* the ordered steps it performed
    ret,          \* the value it returned (None when it raised)
    pre,          \* the program state when it was called
    view,         \* the reference a caller got from the last history read
    viewSeen,     \* the contents of that list when it was returned
    objs,         \* strategy instances built by explicit create calls
    parts,        \* ReportBuilder.parts of a builder under test
    built,        \* whether build() has been called on that builder
    firstBuild    \* the text its first build() returned

vars == <<strategies, heap, saved, now, op, args, raised, events, ret, pre,
          view, viewSeen, objs, parts, built, firstBuild>>

---------------------------------------------------------------------------
(* Bounds of the model *)

MaxHist == 2

MaxTypes == 2

MaxReports == 1

MaxObjs == 2

MaxParts == 3

MaxTime == 1

---------------------------------------------------------------------------
(* Python values *)

None == "None"

NoError == "NoError"

KeyError == "KeyError"

ValueError == "ValueError"

NoRef == "NoRef"

Idle == "idle"

Has(d, k) == k \in DOMAIN d

Without(d, k) == [f \in DOMAIN d \ {k} |-> d[f]]

Ev(e, k, a) == [ev |-> e, key |-> k, arg |-> a]

IsPrefix(s, t) == Len(s) <= Len(t) /\ SubSeq(t, 1, Len(s)) = s

---------------------------------------------------------------------------
(* ejercicio1 *)

\* dict.get(key): the value under key, or None
DictGet(table, key) == IF key \in DOMAIN table THEN table[key] ELSE None

NotificationStrategies ==
    [email |-> "EmailNotification", sms |-> "SMSNotification",
     push |-> "PushNotification"]

\* A lenient extraction: the customer fields are read with dict.get, so a
\* missing one becomes None instead of raising
OrderInfo_lenient(order_data) ==
    IF ~Has(order_data, "customer") THEN [raised |-> KeyError, field |-> "customer"]
    ELSE IF ~Has(order_data, "order_id") THEN [raised |-> KeyError, field |-> "order_id"]
    ELSE IF ~Has(order_data, "total") THEN [raised |-> KeyError, field |-> "total"]
    ELSE LET customer == order_data["customer"] IN
         [raised |-> NoError,
          customer |-> customer,
          order_id |-> order_data["order_id"],
          total |-> order_data["total"],
          name |-> DictGet(customer, "name"),
          email |-> DictGet(customer, "email"),
          phone |-> DictGet(customer, "phone"),
          device |-> DictGet(customer, "device_id")]

\* OrderInfo.__init__: reads the seven fields in source order; the first
\* missing one raises KeyError
OrderInfo(order_data) ==
    IF ~Has(order_data, "customer") THEN [raised |-> KeyError, field |-> "customer"]
    ELSE IF ~Has(order_data, "order_id") THEN [raised |-> KeyError, field |-> "order_id"]
    ELSE IF ~Has(order_data, "total") THEN [raised |-> KeyError, field |-> "total"]
    ELSE LET customer == order_data["customer"] IN
      IF ~Has(customer, "name") THEN [raised |-> KeyError, field |-> "name"]
      ELSE IF ~Has(customer, "email") THEN [raised |-> KeyError, field |-> "email"]
      ELSE IF ~Has(customer, "phone") THEN [raised |-> KeyError, field |-> "phone"]
      ELSE IF ~Has(customer, "device_id") THEN [raised |-> KeyError, field |-> "device_id"]
      ELSE [raised |-> NoError,
            customer |-> customer,
            order_id |-> order_data["order_id"],
            total |-> order_data["total"],
            name |-> customer["name"],
            email |-> customer["email"],
            phone |-> customer["phone"],
            device |-> customer["device_id"]]

EmailNotification_send(info, t) ==
    [type |-> "email", to |-> info.email,
     message |-> <<"Estimado", info.name, "su pedido #", info.order_id,
                   "por $", info.total, "ha sido confirmado.">>,
     timestamp |-> t]

\* An SMS strategy that addresses the record to the e-mail address
SMSNotification_send_to_email(info, t) ==
    [type |-> "sms", to |-> info.email,
     message |-> <<"Pedido #", info.order_id, "confirmado. Total: $",
                   info.total, "Gracias por su compra!">>,
     timestamp |-> t]

SMSNotification_send(info, t) ==
    [type |-> "sms", to |-> info.phone,
     message |-> <<"Pedido #", info.order_id, "confirmado. Total: $",
                   info.total, "Gracias por su compra!">>,
     timestamp |-> t]

PushNotification_send(info, t) ==
    [type |-> "push", to |-> info.device,
     message |-> <<"Pedido confirmado! #", info.order_id, "- $", info.total>>,
     timestamp |-> t]

\* strategy.send(info): dispatch on the class of the instance
NotificationStrategy_send(cls, info, t) ==
    CASE cls = "EmailNotification" -> EmailNotification_send(info, t)
      [] cls = "SMSNotification" -> SMSNotification_send(info, t)
      [] cls = "PushNotification" -> PushNotification_send(info, t)

\* A factory that falls back to a registered class when the key is unknown
Factory_create_with_default(table, key) ==
    LET fallback == table[CHOOSE k \in DOMAIN table : TRUE]
        cls == IF key \in DOMAIN table THEN table[key] ELSE fallback
    IN [raised |-> NoError, cls |-> cls]

\* XxxFactory.create(key) on a _strategies table: the class to instantiate,
\* or ValueError when dict.get gave nothing
Factory_create(table, key) ==
    LET cls == DictGet(table, key) IN
    IF cls = None THEN [raised |-> ValueError, cls |-> None]
    ELSE [raised |-> NoError, cls |-> cls]

\* cls(): a new instance, whose reference is its place among the instances
Instantiate(instances, cls) ==
    [objs |-> Append(instances, cls), ref |-> Len(instances) + 1]

\* A history that skips a record equal to one it already holds
HistoryManager_save_unique(h, ref, record) ==
    IF \E i \in 1..Len(h[ref]) : h[ref][i] = record THEN h
    ELSE [h EXCEPT ![ref] = Append(@, record)]

\* HistoryManager.save: list.append on the list object behind ref
HistoryManager_save(h, ref, record) ==
    [h EXCEPT ![ref] = Append(@, record)]

\* HistoryManager.get_all: returns the list attribute itself
HistoryManager_get_all(ref) == ref

\* The loop of process_order from its i-th channel on. st carries the heap,
\* the steps so far, the save count and the clock; stamps[i] is what
\* datetime.now() reads during the i-th send.
RECURSIVE NotifyLoop(_, _, _, _, _, _)
NotifyLoop(st, table, ref, info, notification_types, stamps) ==
    IF st.i > Len(notification_types) THEN st
    ELSE
      LET notif_type == notification_types[st.i]
          made == Factory_create(table, notif_type)
      IN IF made.raised # NoError
         THEN [st EXCEPT !.raised = made.raised]
         ELSE
           LET record == NotificationStrategy_send(made.cls, info, stamps[st.i])
               st2 == [st EXCEPT
                         !.heap = HistoryManager_save(st.heap, ref, record),
                         !.saves = @ + 1,
                         !.clock = stamps[st.i],
                         !.events = @ \o <<Ev("create", notif_type, <<>>),
                                           Ev("send", record.type, <<>>),
                                           Ev("save", record.type, <<>>)>>,
                         !.i = @ + 1]
           IN NotifyLoop(st2, table, ref, info, notification_types, stamps)

\* process_order as a function of the state it reads: OrderInfo first, then
\* the loop over the channels
OrderProcessor_process_order(h, table, ref, clock, order_data, notification_types, stamps) ==
    LET info == OrderInfo(order_data)
        st0 == [heap |-> h, events |-> <<>>, saves |-> 0, clock |-> clock,
                raised |-> NoError, i |-> 1]
    IN IF info.raised # NoError
       THEN [st0 EXCEPT !.raised = info.raised]
       ELSE NotifyLoop(st0, table, ref, info, notification_types, stamps)

---------------------------------------------------------------------------
(* ejercicio2: texts *)

\* A text is a sequence of tokens; a token is a literal or a number.
Lit(str) == [lit |-> str, num |-> 0]

Num(n) == [lit |-> "#", num |-> n]

NL == Lit("\n")

\* format(x, ".2f") of an amount kept in hundredths
Fixed2(c) ==
    LET a == IF c < 0 THEN 0 - c ELSE c IN
    (IF c < 0 THEN <<Lit("-")>> ELSE <<>>)
      \o <<Num(a \div 100), Lit("."), Num((a % 100) \div 10), Num(a % 10)>>

RECURSIVE Flatten(_)
\* "".join(parts)
Flatten(ps) == IF ps = <<>> THEN <<>> ELSE Head(ps) \o Flatten(Tail(ps))

ReportBuilder_add(ps, text) == Append(ps, text \o <<NL>>)

ReportBuilder_separator(ps) == Append(ps, <<Lit("-"), Num(60), NL>>)

ReportBuilder_header(ps, title) ==
    ps \o << <<Lit("="), Num(60), NL>>,
             <<Lit("           "), Lit(title), NL>>,
             <<Lit("="), Num(60), NL>> >>

ReportBuilder_build(ps) == Flatten(ps)

---------------------------------------------------------------------------
(* ejercicio2: report kinds (template method) *)

RECURSIVE FirstLacking(_, _, _)
\* the first index from i on whose item has no field f, or 0
FirstLacking(items, f, i) ==
    IF i > Len(items) THEN 0
    ELSE IF ~Has(items[i], f) THEN i
    ELSE FirstLacking(items, f, i + 1)

RECURSIVE SumOf(_, _)
\* sum(item[f] for item in items)
SumOf(items, f) ==
    IF items = <<>> THEN 0 ELSE Head(items)[f] + SumOf(Tail(items), f)

Body(ps) == [raised |-> NoError, parts |-> ps]

BodyFails == [raised |-> KeyError, parts |-> <<>>]

SalesLine(sale) ==
    <<Lit("  * Producto: "), Lit(sale["product"]), Lit(" - $")>> \o Fixed2(sale["amount"])

RECURSIVE AddSales(_, _)
\* for sale in data['sales']: builder.add(...)
AddSales(ps, sales) ==
    IF sales = <<>> THEN ps
    ELSE AddSales(ReportBuilder_add(ps, SalesLine(Head(sales))), Tail(sales))

SalesReport_body(ps, data) ==
    IF ~Has(data, "sales") THEN BodyFails
    ELSE IF FirstLacking(data["sales"], "amount", 1) # 0 THEN BodyFails
    ELSE IF ~Has(data, "period") THEN BodyFails
    ELSE IF FirstLacking(data["sales"], "product", 1) # 0 THEN BodyFails
    ELSE
      LET total_sales == SumOf(data["sales"], "amount")
          p1 == ReportBuilder_add(ps, <<Lit("Total de ventas: $")>> \o Fixed2(total_sales))
          p2 == ReportBuilder_add(p1, <<Lit("Numero de transacciones: "), Num(Len(data["sales"]))>>)
          p3 == ReportBuilder_add(p2, <<Lit("Periodo: "), Lit(data["period"]), NL>>)
          p4 == ReportBuilder_add(p3, <<Lit("Detalle de ventas:")>>)
          p5 == ReportBuilder_separator(p4)
      IN Body(AddSales(p5, data["sales"]))

InventoryLine(item) ==
    <<Lit("  * "), Lit(item["name"]), Lit(" ("), Lit(item["category"]), Lit("): "),
      Num(item["quantity"]), Lit(" unidades")>>

RECURSIVE AddItems(_, _)
\* for item in data['items']: builder.add(...)
AddItems(ps, items) ==
    IF items = <<>> THEN ps
    ELSE AddItems(ReportBuilder_add(ps, InventoryLine(Head(items))), Tail(items))

InventoryReport_body(ps, data) ==
    IF ~Has(data, "items") THEN BodyFails
    ELSE IF FirstLacking(data["items"], "quantity", 1) # 0 THEN BodyFails
    ELSE IF FirstLacking(data["items"], "category", 1) # 0 THEN BodyFails
    ELSE IF FirstLacking(data["items"], "name", 1) # 0 THEN BodyFails
    ELSE
      LET items == data["items"]
          total_items == SumOf(items, "quantity")
          categories == Cardinality({items[i]["category"] : i \in 1..Len(items)})
          p1 == ReportBuilder_add(ps, <<Lit("Total de productos: "), Num(total_items)>>)
          p2 == ReportBuilder_add(p1, <<Lit("Categorias: "), Num(categories), NL>>)
          p3 == ReportBuilder_add(p2, <<Lit("Inventario actual:")>>)
          p4 == ReportBuilder_separator(p3)
      IN Body(AddItems(p4, items))

FinancialReport_body(ps, data) ==
    IF ~Has(data, "income") THEN BodyFails
    ELSE IF ~Has(data, "expenses") THEN BodyFails
    ELSE
      LET income == data["income"]
          expenses == data["expenses"]
          balance == income - expenses
          p1 == ReportBuilder_add(ps, <<Lit("Ingresos: $")>> \o Fixed2(income))
          p2 == ReportBuilder_add(p1, <<Lit("Gastos: $")>> \o Fixed2(expenses))
      IN Body(ReportBuilder_add(p2, <<Lit("Balance: $")>> \o Fixed2(balance)))

ReportStrategy_title(cls) ==
    CASE cls = "SalesReport" -> "REPORTE DE VENTAS"
      [] cls = "InventoryReport" -> "REPORTE DE INVENTARIO"
      [] cls = "FinancialReport" -> "REPORTE FINANCIERO"

ReportStrategy_body(cls, ps, data) ==
    CASE cls = "SalesReport" -> SalesReport_body(ps, data)
      [] cls = "InventoryReport" -> InventoryReport_body(ps, data)
      [] cls = "FinancialReport" -> FinancialReport_body(ps, data)

\* ReportStrategy.generate: header, generation date, body, build
ReportStrategy_generate(cls, data, timestamp) ==
    LET p1 == ReportBuilder_header(<<>>, ReportStrategy_title(cls))
        p2 == ReportBuilder_add(p1, <<Lit("Fecha de generacion: "), Num(timestamp), NL>>)
        body == ReportStrategy_body(cls, p2, data)
    IN IF body.raised # NoError
       THEN [raised |-> body.raised, text |-> <<>>]
       ELSE [raised |-> NoError, text |-> ReportBuilder_build(body.parts)]

---------------------------------------------------------------------------
(* ejercicio2: formats, deliveries, factories *)

PDFFormatter_format(content) ==
    <<Lit("[PDF FORMAT]"), NL>> \o content \o <<NL, Lit("[END PDF]")>>

ExcelFormatter_format(content) ==
    <<Lit("[EXCEL FORMAT]"), NL>> \o content \o <<NL, Lit("[END EXCEL]")>>

HTMLFormatter_format(content) ==
    <<Lit("<html><body><pre>"), NL>> \o content \o <<NL, Lit("</pre></body></html>")>>

FormatStrategy_format(cls, content) ==
    CASE cls = "PDFFormatter" -> PDFFormatter_format(content)
      [] cls = "ExcelFormatter" -> ExcelFormatter_format(content)
      [] cls = "HTMLFormatter" -> HTMLFormatter_format(content)

ReportStrategies ==
    [sales |-> "SalesReport", inventory |-> "InventoryReport",
     financial |-> "FinancialReport"]

FormatStrategies ==
    [pdf |-> "PDFFormatter", excel |-> "ExcelFormatter", html |-> "HTMLFormatter"]

DeliveryStrategies ==
    [email |-> "EmailDelivery", download |-> "DownloadDelivery",
     cloud |-> "CloudDelivery"]

\* the outcome of a generate_report that raised after performing steps evs
Aborted(h, evs, err) ==
    [heap |-> h, events |-> evs, raised |-> err, ret |-> None, saves |-> 0]

\* generate_report resolving each strategy only when its stage starts
generate_report_lazy(h, tables, ref, t, report_type, data, output_format, delivery_method) ==
    LET report_strategy == Factory_create(tables.report, report_type)
        format_strategy == Factory_create(tables.format, output_format)
        delivery_strategy == Factory_create(tables.delivery, delivery_method)
    IN
    IF report_strategy.raised # NoError THEN Aborted(h, <<>>, report_strategy.raised)
    ELSE
      LET report_content == ReportStrategy_generate(report_strategy.cls, data, t)
          e1 == <<Ev("create_report", report_type, <<>>)>>
      IN
      IF report_content.raised # NoError THEN Aborted(h, e1, report_content.raised)
      ELSE
        LET e2 == Append(e1, Ev("generate", report_type, report_content.text)) IN
        IF format_strategy.raised # NoError THEN Aborted(h, e2, format_strategy.raised)
        ELSE
          LET formatted_report == FormatStrategy_format(format_strategy.cls, report_content.text)
              e3 == e2 \o <<Ev("create_format", output_format, <<>>),
                            Ev("format", output_format, formatted_report)>>
              record == [type |-> report_type, format |-> output_format,
                         delivery |-> delivery_method, timestamp |-> t]
          IN
          IF delivery_strategy.raised # NoError THEN Aborted(h, e3, delivery_strategy.raised)
          ELSE [heap |-> HistoryManager_save(h, ref, record),
                events |-> e3 \o <<Ev("create_delivery", delivery_method, <<>>),
                                   Ev("deliver", delivery_method, formatted_report),
                                   Ev("save", report_type, <<>>)>>,
                raised |-> NoError,
                ret |-> formatted_report,
                saves |-> 1]

\* generate_report returning the content instead of the formatted report
generate_report_returns_content(h, tables, ref, t, report_type, data, output_format, delivery_method) ==
    LET report_strategy == Factory_create(tables.report, report_type)
        format_strategy == Factory_create(tables.format, output_format)
        delivery_strategy == Factory_create(tables.delivery, delivery_method)
        e1 == <<Ev("create_report", report_type, <<>>)>>
        e2 == Append(e1, Ev("create_format", output_format, <<>>))
        e3 == Append(e2, Ev("create_delivery", delivery_method, <<>>))
    IN
    IF report_strategy.raised # NoError THEN Aborted(h, <<>>, report_strategy.raised)
    ELSE IF format_strategy.raised # NoError THEN Aborted(h, e1, format_strategy.raised)
    ELSE IF delivery_strategy.raised # NoError THEN Aborted(h, e2, delivery_strategy.raised)
    ELSE
      LET report_content == ReportStrategy_generate(report_strategy.cls, data, t) IN
      IF report_content.raised # NoError THEN Aborted(h, e3, report_content.raised)
      ELSE
        LET formatted_report == FormatStrategy_format(format_strategy.cls, report_content.text)
            record == [type |-> report_type, format |-> output_format,
                       delivery |-> delivery_method, timestamp |-> t]
        IN [heap |-> HistoryManager_save(h, ref, record),
            events |-> e3 \o <<Ev("generate", report_type, report_content.text),
                               Ev("format", output_format, formatted_report),
                               Ev("deliver", delivery_method, formatted_report),
                               Ev("save", report_type, <<>>)>>,
            raised |-> NoError,
            ret |-> report_content.text,
            saves |-> 1]

\* generate_report writing the history record before the content is generated
generate_report_saves_first(h, tables, ref, t, report_type, data, output_format, delivery_method) ==
    LET report_strategy == Factory_create(tables.report, report_type)
        format_strategy == Factory_create(tables.format, output_format)
        delivery_strategy == Factory_create(tables.delivery, delivery_method)
        e1 == <<Ev("create_report", report_type, <<>>)>>
        e2 == Append(e1, Ev("create_format", output_format, <<>>))
        e3 == Append(e2, Ev("create_delivery", delivery_method, <<>>))
        e4 == Append(e3, Ev("save", report_type, <<>>))
        record == [type |-> report_type, format |-> output_format,
                   delivery |-> delivery_method, timestamp |-> t]
        h2 == HistoryManager_save(h, ref, record)
    IN
    IF report_strategy.raised # NoError THEN Aborted(h, <<>>, report_strategy.raised)
    ELSE IF format_strategy.raised # NoError THEN Aborted(h, e1, format_strategy.raised)
    ELSE IF delivery_strategy.raised # NoError THEN Aborted(h, e2, delivery_strategy.raised)
    ELSE
      LET report_content == ReportStrategy_generate(report_strategy.cls, data, t) IN
      IF report_content.raised # NoError
      THEN [heap |-> h2, events |-> e4, raised |-> report_content.raised,
            ret |-> None, saves |-> 1]
      ELSE
        LET formatted_report == FormatStrategy_format(format_strategy.cls, report_content.text)
        IN [heap |-> h2,
            events |-> e4 \o <<Ev("generate", report_type, report_content.text),
                               Ev("format", output_format, formatted_report),
                               Ev("deliver", delivery_method, formatted_report)>>,
            raised |-> NoError,
            ret |-> formatted_report,
            saves |-> 1]

\* ReportSystem.generate_report as a function of the state it reads.
\* t is what datetime.now() reads on entry.
ReportSystem_generate_report(h, tables, ref, t, report_type, data, output_format, delivery_method) ==
    LET report_strategy == Factory_create(tables.report, report_type)
        format_strategy == Factory_create(tables.format, output_format)
        delivery_strategy == Factory_create(tables.delivery, delivery_method)
        e1 == <<Ev("create_report", report_type, <<>>)>>
        e2 == Append(e1, Ev("create_format", output_format, <<>>))
        e3 == Append(e2, Ev("create_delivery", delivery_method, <<>>))
    IN
    IF report_strategy.raised # NoError THEN Aborted(h, <<>>, report_strategy.raised)
    ELSE IF format_strategy.raised # NoError THEN Aborted(h, e1, format_strategy.raised)
    ELSE IF delivery_strategy.raised # NoError THEN Aborted(h, e2, delivery_strategy.raised)
    ELSE
      LET report_content == ReportStrategy_generate(report_strategy.cls, data, t) IN
      IF report_content.raised # NoError THEN Aborted(h, e3, report_content.raised)
      ELSE
        LET formatted_report == FormatStrategy_format(format_strategy.cls, report_content.text)
            record == [type |-> report_type, format |-> output_format,
                       delivery |-> delivery_method, timestamp |-> t]
        IN [heap |-> HistoryManager_save(h, ref, record),
            events |-> e3 \o <<Ev("generate", report_type, report_content.text),
                               Ev("format", output_format, formatted_report),
                               Ev("deliver", delivery_method, formatted_report),
                               Ev("save", report_type, <<>>)>>,
            raised |-> NoError,
            ret |-> formatted_report,
            saves |-> 1]

---------------------------------------------------------------------------
(* Inputs of ejercicio1 *)

\* the list object created by HistoryManager.__init__ of ejercicio1
Notifications == "notifications"

Customer1 ==
    [name |-> "Ana Garcia", email |-> "ana.garcia@email.com",
     phone |-> "+34-600-123-456", device_id |-> "DEVICE-ABC-123"]

Customer2 ==
    [name |-> "Carlos Ruiz", email |-> "carlos.ruiz@email.com",
     phone |-> "+34-600-789-012", device_id |-> "DEVICE-XYZ-789"]

Order1 == [order_id |-> "ORD-001", customer |-> Customer1, total |-> "150.50"]

Order2 == [order_id |-> "ORD-002", customer |-> Customer2, total |-> "75.00"]

TopFields == {"customer", "order_id", "total"}

CustomerFields == {"name", "email", "phone", "device_id"}

RequiredFields == TopFields \cup CustomerFields

\* Order1 with one required field removed
Lacking(f) ==
    IF f \in TopFields THEN Without(Order1, f)
    ELSE [Order1 EXCEPT !.customer = Without(Customer1, f)]

ValidOrders == {Order1, Order2}

Orders == ValidOrders \cup {Lacking(f) : f \in RequiredFields}

ChannelKeys == {"email", "sms", "push"}

\* keys a caller may pass as channels: the vocabulary and two unknown keys
ChannelInputs == ChannelKeys \cup {"cloud", ""}

SeqsUpTo(S, n) == UNION {[1..k -> S] : k \in 0..n}

NonDecreasing(s) == \A i \in 1..Len(s) - 1 : s[i] <= s[i + 1]

\* what datetime.now() may read during n successive calls, from time t on
Readings(t, n) == {s \in [1..n -> t..MaxTime] : NonDecreasing(s)}

---------------------------------------------------------------------------
(* Inputs of ejercicio2 *)

\* the list object created by HistoryManager.__init__ of ejercicio2
Reports == "reports"

SalesData ==
    [period |-> "Enero 2024",
     sales |-> <<[product |-> "Laptop HP", amount |-> 89999],
                 [product |-> "Mouse Logitech", amount |-> 2550]>>]

InventoryData ==
    [items |-> <<[name |-> "Laptop HP", category |-> "Computadoras", quantity |-> 15],
                 [name |-> "Mouse Logitech", category |-> "Accesorios", quantity |-> 50],
                 [name |-> "Teclado", category |-> "Accesorios", quantity |-> 30]>>]

FinancialData == [income |-> 5000000, expenses |-> 3200000]

CompleteData == {SalesData, InventoryData, FinancialData}

IncompleteData ==
    {Without(FinancialData, "expenses"),
     Without(SalesData, "period"),
     [SalesData EXCEPT !.sales = Append(@, [product |-> "Monitor"])],
     [InventoryData EXCEPT !.items = <<[name |-> "Monitor", quantity |-> 20]>>]}

ReportData == CompleteData \cup IncompleteData

ReportKeys == {"sales", "inventory", "financial"}

FormatKeys == {"pdf", "excel", "html"}

DeliveryKeys == {"email", "download", "cloud"}

\* keys a caller may pass: each vocabulary and a key of another registry
ReportInputs == ReportKeys \cup {"pdf"}

FormatInputs == FormatKeys \cup {"cloud"}

DeliveryInputs == DeliveryKeys \cup {"sms"}

---------------------------------------------------------------------------
(* State *)

\* what a call can change, as it is before the call
Snapshot == [heap |-> heap, strategies |-> strategies, objs |-> objs, parts |-> parts]

Init ==
    /\ strategies = [notification |-> NotificationStrategies,
                     report |-> ReportStrategies,
                     format |-> FormatStrategies,
                     delivery |-> DeliveryStrategies]
    /\ heap = [notifications |-> <<>>, reports |-> <<>>]
    /\ saved = [notifications |-> 0, reports |-> 0]
    /\ now = 0
    /\ op = Idle
    /\ args = <<>>
    /\ raised = NoError
    /\ events = <<>>
    /\ ret = None
    /\ view = NoRef
    /\ viewSeen = <<>>
    /\ objs = <<>>
    /\ parts = <<>>
    /\ built = FALSE
    /\ firstBuild = <<>>
    /\ pre = Snapshot

process_order(order_data, notification_types, stamps) ==
    /\ saved[Notifications] + Len(notification_types) <= MaxHist
    /\ LET out == OrderProcessor_process_order(heap, strategies.notification,
                      Notifications, now, order_data, notification_types, stamps)
       IN /\ heap' = out.heap
          /\ saved' = [saved EXCEPT ![Notifications] = @ + out.saves]
          /\ now' = out.clock
          /\ raised' = out.raised
          /\ events' = out.events
    /\ op' = "process_order"
    /\ args' = <<order_data, notification_types>>
    /\ ret' = None
    /\ pre' = Snapshot
    /\ UNCHANGED <<strategies, view, viewSeen, objs, parts, built, firstBuild>>

get_history ==
    /\ view' = HistoryManager_get_all(Notifications)
    /\ viewSeen' = heap[view']
    /\ op' = "get_history"
    /\ args' = <<>>
    /\ raised' = NoError
    /\ events' = <<>>
    /\ ret' = view'
    /\ pre' = Snapshot
    /\ UNCHANGED <<strategies, heap, saved, now, objs, parts, built, firstBuild>>

\* The caller is done with the outcome of its last call and goes on: the
\* observation of that call is dropped, the program's state stays.
caller_continue ==
    /\ op # Idle
    /\ op' = Idle
    /\ args' = <<>>
    /\ raised' = NoError
    /\ events' = <<>>
    /\ ret' = None
    /\ pre' = Snapshot
    /\ UNCHANGED <<strategies, heap, saved, now, view, viewSeen, objs, parts,
                   built, firstBuild>>

generate_report(report_type, data, output_format, delivery_method, t) ==
    /\ saved[Reports] < MaxReports
    /\ LET out == ReportSystem_generate_report(heap, strategies, Reports, t,
                      report_type, data, output_format, delivery_method)
       IN /\ heap' = out.heap
          /\ saved' = [saved EXCEPT ![Reports] = @ + out.saves]
          /\ raised' = out.raised
          /\ events' = out.events
          /\ ret' = out.ret
    /\ now' = t
    /\ op' = "generate_report"
    /\ args' = <<report_type, data, output_format, delivery_method>>
    /\ pre' = Snapshot
    /\ UNCHANGED <<strategies, view, viewSeen, objs, parts, built, firstBuild>>

NextReports ==
    \/ /\ op = Idle
       /\ \E report_type \in ReportInputs, data \in ReportData,
             output_format \in FormatInputs, delivery_method \in DeliveryInputs,
             t \in now..MaxTime :
            generate_report(report_type, data, output_format, delivery_method, t)
    \/ caller_continue

SpecReports == Init /\ [][NextReports]_vars

\* how many times a process_order call reads the clock: once per send,
\* whatever the clock shows
ClockReads(order_data, notification_types) ==
    OrderProcessor_process_order(heap, strategies.notification, Notifications,
        now, order_data, notification_types,
        [i \in 1..Len(notification_types) |-> now]).saves

NextOrders ==
    \/ /\ op = Idle
       /\ \E order_data \in Orders, notification_types \in SeqsUpTo(ChannelInputs, MaxTypes) :
            \E stamps \in Readings(now, ClockReads(order_data, notification_types)) :
              process_order(order_data, notification_types, stamps)
    \/ caller_continue

SpecOrders == Init /\ [][NextOrders]_vars

---------------------------------------------------------------------------
(* The factories on their own *)

Families == {"notification", "report", "format", "delivery"}

\* every key of every vocabulary, the empty string and a key of none
AllKeys == ChannelKeys \cup ReportKeys \cup FormatKeys \cup DeliveryKeys \cup {"", "fax"}

\* NotificationFactory.create, ReportFactory.create, FormatFactory.create or
\* DeliveryFactory.create, by family
create(family, key) ==
    /\ Len(objs) < MaxObjs
    /\ LET made == Factory_create(strategies[family], key) IN
       IF made.raised # NoError
       THEN /\ raised' = made.raised
            /\ ret' = None
            /\ objs' = objs
       ELSE LET inst == Instantiate(objs, made.cls) IN
            /\ raised' = NoError
            /\ ret' = inst.ref
            /\ objs' = inst.objs
    /\ op' = "create"
    /\ args' = <<family, key>>
    /\ events' = <<>>
    /\ pre' = Snapshot
    /\ UNCHANGED <<strategies, heap, saved, now, view, viewSeen, parts, built, firstBuild>>

NextFactory ==
    \/ /\ op = Idle
       /\ \E family \in Families, key \in AllKeys : create(family, key)
    \/ caller_continue

SpecFactory == Init /\ [][NextFactory]_vars

---------------------------------------------------------------------------
(* A ReportBuilder on its own *)

Texts == {<<>>, <<Lit("a")>>, <<Lit("b"), Lit("c")>>}

Titles == {"REPORTE DE VENTAS", "T"}

BuilderUnchanged == UNCHANGED <<strategies, heap, saved, now, view, viewSeen, objs>>

\* ReportBuilder(): a new builder
builder_new ==
    /\ parts' = <<>>
    /\ built' = FALSE
    /\ firstBuild' = <<>>
    /\ op' = "ReportBuilder"
    /\ args' = <<>>
    /\ raised' = NoError
    /\ events' = <<>>
    /\ ret' = None
    /\ pre' = Snapshot
    /\ BuilderUnchanged

builder_add(text) ==
    /\ Len(parts) < MaxParts
    /\ parts' = ReportBuilder_add(parts, text)
    /\ op' = "add"
    /\ args' = <<text>>
    /\ raised' = NoError
    /\ events' = <<>>
    /\ ret' = None
    /\ pre' = Snapshot
    /\ UNCHANGED <<built, firstBuild>>
    /\ BuilderUnchanged

builder_separator ==
    /\ Len(parts) < MaxParts
    /\ parts' = ReportBuilder_separator(parts)
    /\ op' = "separator"
    /\ args' = <<>>
    /\ raised' = NoError
    /\ events' = <<>>
    /\ ret' = None
    /\ pre' = Snapshot
    /\ UNCHANGED <<built, firstBuild>>
    /\ BuilderUnchanged

builder_header(title) ==
    /\ Len(parts) < MaxParts
    /\ parts' = ReportBuilder_header(parts, title)
    /\ op' = "header"
    /\ args' = <<title>>
    /\ raised' = NoError
    /\ events' = <<>>
    /\ ret' = None
    /\ pre' = Snapshot
    /\ UNCHANGED <<built, firstBuild>>
    /\ BuilderUnchanged

builder_build ==
    /\ ret' = ReportBuilder_build(parts)
    /\ built' = TRUE
    /\ firstBuild' = IF built THEN firstBuild ELSE ret'
    /\ op' = "build"
    /\ args' = <<>>
    /\ raised' = NoError
    /\ events' = <<>>
    /\ pre' = Snapshot
    /\ UNCHANGED parts
    /\ BuilderUnchanged

NextBuilder ==
    \/ op = Idle /\ builder_new
    \/ op = Idle /\ \E text \in Texts : builder_add(text)
    \/ op = Idle /\ builder_separator
    \/ op = Idle /\ \E title \in Titles : builder_header(title)
    \/ op = Idle /\ builder_build
    \/ caller_continue

SpecBuilder == Init /\ [][NextBuilder]_vars

---------------------------------------------------------------------------
(* Both histories, their reads, and a caller holding what a read returned *)

get_report_history ==
    /\ view' = HistoryManager_get_all(Reports)
    /\ viewSeen' = heap[view']
    /\ op' = "get_report_history"
    /\ args' = <<>>
    /\ raised' = NoError
    /\ events' = <<>>
    /\ ret' = view'
    /\ pre' = Snapshot
    /\ UNCHANGED <<strategies, heap, saved, now, objs, parts, built, firstBuild>>

\* The caller removes the last element of the list a history read returned
\* (list.pop on the returned object).
caller_pops_view ==
    /\ view # NoRef
    /\ heap[view] # <<>>
    /\ heap' = [heap EXCEPT ![view] = SubSeq(@, 1, Len(@) - 1)]
    /\ viewSeen' = SubSeq(viewSeen, 1, Len(viewSeen) - 1)
    /\ op' = "caller_pops_view"
    /\ args' = <<>>
    /\ raised' = NoError
    /\ events' = <<>>
    /\ ret' = None
    /\ pre' = Snapshot
    /\ UNCHANGED <<strategies, saved, now, view, objs, parts, built, firstBuild>>

HistoryOrders == {Order1, Lacking("phone")}

HistoryChannels == {"email", "cloud"}

HistoryKinds == {"financial", "pdf"}

HistoryData == {FinancialData, Without(FinancialData, "expenses")}

NextHistory ==
    \/ /\ op = Idle
       /\ \E order_data \in HistoryOrders,
             notification_types \in SeqsUpTo(HistoryChannels, MaxTypes) :
            \E stamps \in Readings(now, ClockReads(order_data, notification_types)) :
              process_order(order_data, notification_types, stamps)
    \/ /\ op = Idle
       /\ \E report_type \in HistoryKinds, data \in HistoryData, t \in now..MaxTime :
            generate_report(report_type, data, "html", "cloud", t)
    \/ op = Idle /\ get_history
    \/ op = Idle /\ get_report_history
    \/ caller_continue

SpecHistory == Init /\ [][NextHistory]_vars

NextCaller ==
    \/ NextHistory
    \/ op = Idle /\ caller_pops_view

SpecCaller == Init /\ [][NextCaller]_vars

---------------------------------------------------------------------------
(* Claims about process_order, checked under SpecOrders *)

Complete(order_data) ==
    /\ TopFields \subseteq DOMAIN order_data
    /\ CustomerFields \subseteq DOMAIN order_data["customer"]

\* the address field of the order that a channel writes to
AddressOf(order_data, channel) ==
    CASE channel = "email" -> order_data["customer"]["email"]
      [] channel = "sms" -> order_data["customer"]["phone"]
      [] channel = "push" -> order_data["customer"]["device_id"]

AllIn(seq, S) == \A i \in 1..Len(seq) : seq[i] \in S

\* C1: a process_order call that raises leaves the history as it was before
\* the call, also when an unknown channel key follows valid ones.
C1_FailedCallWritesNothing ==
    (op = "process_order" /\ raised # NoError)
        => heap[Notifications] = pre.heap[Notifications]

\* C3: for a complete order and channels all drawn from email, sms, push,
\* process_order appends exactly one record per channel, in the order given;
\* the i-th one has the i-th channel as type and that channel's address field
\* of the order as to.
C3_OneRecordPerChannel ==
    (op = "process_order" /\ Complete(args[1]) /\ AllIn(args[2], ChannelKeys))
        => LET before == pre.heap[Notifications]
               after == heap[Notifications]
               n == Len(args[2])
           IN /\ raised = NoError
              /\ Len(after) = Len(before) + n
              /\ SubSeq(after, 1, Len(before)) = before
              /\ \A i \in 1..n :
                    /\ after[Len(before) + i].type = args[2][i]
                    /\ after[Len(before) + i].to = AddressOf(args[1], args[2][i])

\* C3 happens: a repeated channel, appended twice in one call
C3_Witness ==
    /\ op = "process_order"
    /\ args = <<Order2, <<"sms", "sms">> >>
    /\ Len(heap[Notifications]) = 2
    /\ heap[Notifications][2].to = "+34-600-789-012"

\* C8: for an order lacking any required field and any channel list,
\* process_order raises the missing-field error before any strategy is
\* created or sent and appends nothing, also when no requested channel uses
\* the missing field.
C8_MissingFieldFailsFirst ==
    (op = "process_order" /\ ~Complete(args[1]))
        => /\ raised = KeyError
           /\ events = <<>>
           /\ heap = pre.heap

\* C8 happens: device_id is missing, only email is requested, and the history
\* already holds a record
C8_Witness ==
    /\ op = "process_order"
    /\ args = <<Lacking("device_id"), <<"email">> >>
    /\ raised = KeyError
    /\ Len(heap[Notifications]) > 0

---------------------------------------------------------------------------
(* Claims about generate_report, checked under SpecReports *)

EventNames(evs) == [i \in 1..Len(evs) |-> evs[i].ev]

IsStage(e) == e.ev \in {"generate", "format", "deliver", "save"}

Ran(evs, name) == \E i \in 1..Len(evs) : evs[i].ev = name

Registered(report_type, output_format, delivery_method) ==
    /\ report_type \in DOMAIN strategies.report
    /\ output_format \in DOMAIN strategies.format
    /\ delivery_method \in DOMAIN strategies.delivery

\* C2: a generate_report call with at least one key missing from its own
\* registry raises the unknown-key error, and when it does no format step and
\* no delivery step has run and the history is unchanged, whichever key it is.
C2_UnknownKeyFailsFast ==
    (op = "generate_report" /\ ~Registered(args[1], args[3], args[4]))
        => /\ raised = ValueError
           /\ ~Ran(events, "format")
           /\ ~Ran(events, "deliver")
           /\ heap = pre.heap

\* C2 happens: only the delivery key is unknown, the data is complete
C2_Witness ==
    /\ op = "generate_report"
    /\ args = <<"financial", FinancialData, "html", "sms">>
    /\ raised = ValueError

\* C4: a generate_report call that succeeds appends exactly one record, whose
\* type, format and delivery are the three keys passed, and returns the
\* selected formatter's output on the selected kind's content, the text that
\* was handed to the delivery step.
C4_OneRecordAndFormattedReturn ==
    (op = "generate_report" /\ raised = NoError)
        => LET before == pre.heap[Reports]
               after == heap[Reports]
               last == after[Len(after)]
               content == ReportStrategy_generate(strategies.report[args[1]],
                                                  args[2], last.timestamp)
           IN /\ Len(after) = Len(before) + 1
              /\ SubSeq(after, 1, Len(before)) = before
              /\ last.type = args[1]
              /\ last.format = args[3]
              /\ last.delivery = args[4]
              /\ content.raised = NoError
              /\ ret = FormatStrategy_format(strategies.format[args[3]], content.text)
              /\ \A i \in 1..Len(events) : events[i].ev = "deliver" => events[i].arg = ret

\* C4 happens: the financial report in HTML to the cloud, with its balance
C4_Witness ==
    /\ op = "generate_report"
    /\ args = <<"financial", FinancialData, "html", "cloud">>
    /\ raised = NoError
    /\ Head(ret) = Lit("<html><body><pre>")
    /\ \E i \in 1..Len(ret) - 5 :
          SubSeq(ret, i, i + 4) = <<Lit("Balance: $")>> \o Fixed2(1800000)
    /\ heap[Reports] = <<[type |-> "financial", format |-> "html",
                          delivery |-> "cloud", timestamp |-> now]>>

\* C10: in every generate_report the stages run in the order generation,
\* format, delivery, history save, each after the previous one: delivery gets
\* the formatter's output, the record is appended only after delivery, and
\* when generation fails on a missing field no format, no delivery and no
\* record happen.
C10_StagesInOrder ==
    op = "generate_report"
        => LET stages == EventNames(SelectSeq(events, IsStage)) IN
           /\ IsPrefix(stages, <<"generate", "format", "deliver", "save">>)
           /\ \A i, j \in 1..Len(events) :
                 (events[i].ev = "format" /\ events[j].ev = "deliver")
                     => (i < j /\ events[j].arg = events[i].arg)
           /\ \A i, j \in 1..Len(events) :
                 (events[i].ev = "generate" /\ events[j].ev = "format")
                     => events[j].arg # events[i].arg
           /\ (heap # pre.heap) => (Ran(events, "deliver") /\ Ran(events, "save"))
           /\ (raised = KeyError) => (stages = <<>> /\ heap = pre.heap)

\* C10 happens: a financial report without expenses
C10_Witness ==
    /\ op = "generate_report"
    /\ args = <<"financial", Without(FinancialData, "expenses"), "pdf", "email">>
    /\ raised = KeyError
    /\ Ran(events, "create_delivery")

---------------------------------------------------------------------------
(* Claims about the histories *)

Histories == {Notifications, Reports}

\* C5: over any sequence of process_order and generate_report calls,
\* successful or failing, and history reads, each history only grows at its
\* end: what it held before a step is a prefix of what it holds after, and
\* its length is the number of saves made on it, equal records included.
C5_AppendOnly ==
    \A r \in Histories :
        /\ IsPrefix(pre.heap[r], heap[r])
        /\ Len(heap[r]) = saved[r]

\* C5 happens: two equal records saved one after the other, then read
C5_Witness ==
    /\ op = "get_history"
    /\ Len(heap[Notifications]) = 2
    /\ heap[Notifications][1] = heap[Notifications][2]
    /\ Len(heap[Reports]) = 1

\* C6: what a history read returned is a snapshot: later saves on the
\* instance do not change it, and the caller's changes to it do not change
\* the instance's own history.
C6_ReadIsSnapshot ==
    /\ view # NoRef => heap[view] = viewSeen
    /\ op = "caller_pops_view" =>
          \A r \in Histories : heap[r] = pre.heap[r]

---------------------------------------------------------------------------
(* Claims about the factories, checked under SpecFactory *)

Vocabulary(family) ==
    CASE family = "notification" -> ChannelKeys
      [] family = "report" -> ReportKeys
      [] family = "format" -> FormatKeys
      [] family = "delivery" -> DeliveryKeys

\* C7: in each of the four registries create(key) returns a fresh instance of
\* the class registered under that key when the key is in the registry's
\* vocabulary, raises the unknown-strategy error for every other key, and
\* never changes the registry tables.
C7_CreateByKey ==
    op = "create"
        => LET family == args[1]
               key == args[2]
           IN /\ DOMAIN pre.strategies[family] = Vocabulary(family)
              /\ key \in Vocabulary(family) =>
                    /\ raised = NoError
                    /\ ret \notin 1..Len(pre.objs)
                    /\ ret \in 1..Len(objs)
                    /\ objs[ret] = pre.strategies[family][key]
                    /\ SubSeq(objs, 1, Len(pre.objs)) = pre.objs
              /\ key \notin Vocabulary(family) =>
                    /\ raised = ValueError
                    /\ ret = None
                    /\ objs = pre.objs
              /\ strategies = pre.strategies

\* C7 happens: 'sms' is refused by the delivery registry after the
\* notification registry built an instance for it
C7_Witness ==
    /\ op = "create"
    /\ args = <<"delivery", "sms">>
    /\ raised = ValueError
    /\ objs = <<"SMSNotification">>

---------------------------------------------------------------------------
(* Claims about ReportBuilder, checked under SpecBuilder *)

\* C9: build() returns the fragments joined in the order of the add,
\* separator and header calls, and after build() no such call can extend the
\* builder: a later build() returns the text the first one returned.
C9_SealedByBuild ==
    /\ op = "add" => parts = Append(pre.parts, args[1] \o <<NL>>)
    /\ op = "separator" => SubSeq(parts, 1, Len(pre.parts)) = pre.parts
    /\ op = "header" => SubSeq(parts, 1, Len(pre.parts)) = pre.parts
    /\ op = "build" => ret = Flatten(parts)
    /\ built => ReportBuilder_build(parts) = firstBuild

====
